---- MODULE Spec2Model ----
(***************************************************************************)
(* The DAG validator and synchronous scheduler of                          *)
(* src/src/orchestration/dag.py: Node, DAG.__init__, DAG._check_cycles and *)
(* DAG.run, as a state machine (Spec, FairSpec), followed by the parts of  *)
(* the API built around it: the approvals endpoints (ApprovalsSpec), the   *)
(* local mode of RunStreamHub (HubSpec), registration (RegisterSpec) and   *)
(* the role check (RbacSpec).  Each specification moves the variables of   *)
(* its own component and leaves the others at rest.                        *)
(*                                                                         *)
(* A Python dict with string keys is a function whose domain is a set of   *)
(* strings; every value stored in a context or returned by a node is a     *)
(* dict from a key to a small integer ({"x": 1}).  An exception is a       *)
(* record of its type and its args tuple.                                  *)
(***************************************************************************)
EXTENDS Integers, Sequences, FiniteSets, TLC

VARIABLES
    input,      \* the node sequence handed to DAG(nodes)
    context,    \* the mapping handed to run(context)
    pc,         \* where the caller / run is: new, ctor_raised, built, while, for, returned, run_raised
    nodes,      \* self.nodes: the dict, as the sequence of its values in iteration order
    err,        \* the exception that left the constructor or run (NoErr when none)
    results,    \* run's local `results`
    done,       \* run's local `done`
    progress,   \* run's local `progress`
    i,          \* position of the for loop of the current pass in self.nodes.items()
    pass,       \* number of the current pass of the while loop (history)
    calls,      \* history: one record per invocation of a node's fn in the current run
    earlier,    \* history kept by RerunSpec: how the run before the current one ended
    approvals,  \* the approvals table, a row's id being its position
    clock,      \* datetime.utcnow(), as the number of decisions made so far
    resp,       \* the response to the last request of the approvals endpoints
    queues,     \* RunStreamHub.queues: run id -> list of queues
    inbox,      \* the items put on each queue, in order
    hubLog,     \* history: the hub calls made so far, in order
    env,        \* os.environ: ALLOW_SIGNUP and ADMIN_SIGNUP_SECRET
    users,      \* the users table, a row's id being its position
    userRoles,  \* the user_roles table joined with roles: rows (user id, role name)
    reqs,       \* the requests to POST /auth/register being served, each with its position
    tokens,     \* the claims of the access tokens issued so far
    checked     \* history: the last call of require_role, with its outcome

dagVars == <<input, context, pc, nodes, err, results, done, progress, i, pass, calls, earlier>>
apprVars == <<approvals, clock, resp>>
hubVars == <<queues, inbox, hubLog>>
authVars == <<env, users, userRoles, reqs, tokens, checked>>
vars == <<dagVars, apprVars, hubVars, authVars>>

\* no request has been answered yet
NoResp == [op |-> "none", authz |-> "none", policy |-> "none", amount |-> 0,
           id |-> 0, approved |-> FALSE, code |-> 0, status |-> "none", threshold |-> 0]

\* a component no request has reached yet
ApprIdle == approvals = <<>> /\ clock = 0 /\ resp = NoResp
HubIdle == queues = <<>> /\ inbox = <<>> /\ hubLog = <<>>
AuthIdle ==
    env = <<>> /\ users = <<>> /\ userRoles = {} /\ reqs = <<>> /\ tokens = {} /\ checked = <<>>

----------------------------------------------------------------------------
(* Bounds of the model. *)

\* longest node sequence handed to the constructor
MaxNodes == 3
\* most depends_on entries in one node sequence, all nodes together
MaxEdges == 3

----------------------------------------------------------------------------
(* Values. *)

\* ids a node can carry, in the order in which a sequence first uses them
IdPool == <<"A", "B", "C", "D", "E">>
\* a dependency id that never names a node
Ghost == "ghost"

EmptyDict == [k \in {} |-> [x |-> 0]]

NoErr == [type |-> "None", args |-> <<>>]
CycleErr == [type |-> "ValueError", args |-> <<"cycle detected">>]
KeyErr(k) == [type |-> "KeyError", args |-> <<k>>]
NoProgressErr == [type |-> "RuntimeError", args |-> <<"DAG could not make progress (missing deps?)">>]
WorkErr == [type |-> "Exception", args |-> <<"work failed">>]

\* Node(id, fn, depends_on)
Node(id, fn, deps) == [id |-> id, fn |-> fn, depends_on |-> deps]

Range(s) == {s[k] : k \in 1..Len(s)}

----------------------------------------------------------------------------
(* Work functions: the callables a Node carries.                           *)

\* lambda ctx: out
ConstFn(out) == [kind |-> "const", out |-> out, path |-> <<>>, key |-> "", add |-> 0]
\* a callable that raises
RaiseFn == [kind |-> "raise", out |-> EmptyDict, path |-> <<>>, key |-> "", add |-> 0]
\* lambda ctx: {key: ctx[path[1]]...[path[n]] + add}
ReadFn(path, key, add) == [kind |-> "read", out |-> EmptyDict, path |-> path, key |-> key, add |-> add]

\* def fn(ctx): <write to ctx>; return out -- the write is "clobber" (every key
\* rebound and the key "m" added) or "clear" (every key removed)
WriteFn(write, out) == [kind |-> write, out |-> out, path |-> <<>>, key |-> "", add |-> 0]

\* fn(arg): what the call gives back, [ok, out, err]
Returned(out) == [ok |-> TRUE, out |-> out, err |-> NoErr]
Raised(e) == [ok |-> FALSE, out |-> EmptyDict, err |-> e]

\* the value a clobbering fn binds its keys to
Clobbered == [x |-> 99]

\* the mapping that was handed to fn, as fn leaves it
ArgAfter(fn, arg) ==
    CASE fn.kind = "clobber" -> [k \in DOMAIN arg \cup {"m"} |-> Clobbered]
      [] fn.kind = "clear"   -> EmptyDict
      [] OTHER               -> arg

\* ctx[p1][p2]["x"] + add for a two-level path through ctx, ctx[p1]["x"] being an
\* int-valued dict: subscripting it with a node id is a KeyError as well
ReadPath(fn, arg) ==
    LET p == fn.path IN
    IF p[1] \notin DOMAIN arg THEN Raised(KeyErr(p[1]))
    ELSE IF Len(p) = 2
         THEN IF p[2] \notin DOMAIN arg[p[1]] THEN Raised(KeyErr(p[2]))
              ELSE Returned(fn.key :> (arg[p[1]][p[2]] + fn.add))
         ELSE IF p[2] \notin DOMAIN arg[p[1]] THEN Raised(KeyErr(p[2]))
              ELSE Raised([type |-> "TypeError", args |-> <<"'int' object is not subscriptable">>])

Apply(fn, arg) ==
    CASE fn.kind = "const" -> Returned(fn.out)
      [] fn.kind = "raise" -> Raised(WorkErr)
      [] fn.kind = "read"  -> ReadPath(fn, arg)
      [] fn.kind \in {"clobber", "clear"} -> Returned(fn.out)

----------------------------------------------------------------------------
(* DAG.__init__: self.nodes = {n.id: n for n in nodes}                     *)

IdsOf(s) == {s[k].id : k \in 1..Len(s)}

\* the first node of s whose id is id: the first write to a key is kept
LastWith_first(s, id) ==
    LET k == CHOOSE k \in 1..Len(s) :
                 /\ s[k].id = id
                 /\ \A m \in 1..(k-1) : s[m].id # id
    IN s[k]

\* the last node of s whose id is id: a later write to a dict key replaces the value
LastWith(s, id) ==
    LET k == CHOOSE k \in 1..Len(s) :
                 /\ s[k].id = id
                 /\ \A m \in (k+1)..Len(s) : s[m].id # id
    IN s[k]

\* a key takes the place of its last insertion
RECURSIVE KeyOrder_last(_, _)
KeyOrder_last(s, k) ==
    IF k > Len(s) THEN <<>>
    ELSE IF \E m \in (k+1)..Len(s) : s[m].id = s[k].id
         THEN KeyOrder_last(s, k + 1)
         ELSE <<s[k].id>> \o KeyOrder_last(s, k + 1)

\* the dict built by the comprehension, as the sequence of its values in
\* iteration order: a key keeps the place of its first insertion
RECURSIVE KeyOrder(_, _)
KeyOrder(s, k) ==
    IF k > Len(s) THEN <<>>
    ELSE IF \E m \in 1..(k-1) : s[m].id = s[k].id
         THEN KeyOrder(s, k + 1)
         ELSE <<s[k].id>> \o KeyOrder(s, k + 1)

DictOf(s) ==
    LET ks == KeyOrder(s, 1)
    IN [k \in 1..Len(ks) |-> LastWith(s, ks[k])]

\* self.nodes[nid]
Lookup(d, nid) == d[CHOOSE k \in 1..Len(d) : d[k].id = nid]

----------------------------------------------------------------------------
(* DAG._check_cycles: the depth-first traversal.  st is the pair of sets    *)
(* `seen` and `stack` and the exception raised so far, if any.              *)

RECURSIVE visit(_, _, _)
RECURSIVE visitDeps(_, _, _, _)
RECURSIVE visit_no_pop(_, _, _)
RECURSIVE visit_seen_first(_, _, _)

\* for dep in self.nodes[nid].depends_on: visit(dep)
visitDeps(d, deps, k, st) ==
    IF st.err # NoErr \/ k > Len(deps) THEN st
    ELSE visitDeps(d, deps, k + 1, visit(d, deps[k], st))

\* visit without `stack.remove(nid)`
visit_no_pop(d, nid, st) ==
    IF st.err # NoErr THEN st
    ELSE IF nid \in st.stack THEN [st EXCEPT !.err = CycleErr]
    ELSE IF nid \in st.seen THEN st
    ELSE LET st1 == [st EXCEPT !.stack = @ \cup {nid}, !.seen = @ \cup {nid}]
         IN IF nid \notin IdsOf(d) THEN [st1 EXCEPT !.err = KeyErr(nid)]
            ELSE visitDeps(d, Lookup(d, nid).depends_on, 1, st1)

\* visit with the `seen` test ahead of the `stack` test
visit_seen_first(d, nid, st) ==
    IF st.err # NoErr THEN st
    ELSE IF nid \in st.seen THEN st
    ELSE IF nid \in st.stack THEN [st EXCEPT !.err = CycleErr]
    ELSE LET st1 == [st EXCEPT !.stack = @ \cup {nid}, !.seen = @ \cup {nid}]
         IN IF nid \notin IdsOf(d) THEN [st1 EXCEPT !.err = KeyErr(nid)]
            ELSE LET st2 == visitDeps(d, Lookup(d, nid).depends_on, 1, st1)
                 IN IF st2.err # NoErr THEN st2
                    ELSE [st2 EXCEPT !.stack = @ \ {nid}]

\* def visit(nid)
visit(d, nid, st) ==
    IF st.err # NoErr THEN st
    ELSE IF nid \in st.stack THEN [st EXCEPT !.err = CycleErr]
    ELSE IF nid \in st.seen THEN st
    ELSE LET st1 == [st EXCEPT !.stack = @ \cup {nid}, !.seen = @ \cup {nid}]
         IN IF nid \notin IdsOf(d) THEN [st1 EXCEPT !.err = KeyErr(nid)]
            ELSE LET st2 == visitDeps(d, Lookup(d, nid).depends_on, 1, st1)
                 IN IF st2.err # NoErr THEN st2
                    ELSE [st2 EXCEPT !.stack = @ \ {nid}]

\* visit(next(iter(self.nodes))): the traversal starts at the first key only
visitAll_first_only(d, k, st) ==
    IF d = <<>> THEN st ELSE visit(d, d[1].id, st)

\* the calls of a node's fn that __init__ and _check_cycles make, eagerly
\* calling the first node
ctor_calls_eager(s) ==
    IF s = <<>> THEN <<>>
    ELSE <<[nid |-> s[1].id, arg |-> EmptyDict, pass |-> 0,
            ok |-> Apply(s[1].fn, EmptyDict).ok, out |-> Apply(s[1].fn, EmptyDict).out,
            raised |-> Apply(s[1].fn, EmptyDict).err]>>

\* the calls of a node's fn that __init__ and _check_cycles make: none, the
\* constructor reads only n.id and n.depends_on
ctor_calls(s) == <<>>

RECURSIVE visitAll(_, _, _)
\* for nid in list(self.nodes.keys()): visit(nid)
visitAll(d, k, st) ==
    IF st.err # NoErr \/ k > Len(d) THEN st
    ELSE visitAll(d, k + 1, visit(d, d[k].id, st))

\* the exception _check_cycles raises on the dict d, NoErr when it returns
check_cycles(d) == visitAll(d, 1, [seen |-> {}, stack |-> {}, err |-> NoErr]).err

----------------------------------------------------------------------------
(* DAG.run                                                                  *)

\* {**results, **context}: the context wins a shared key
Merge_context_wins(c, r) ==
    [k \in DOMAIN c \cup DOMAIN r |-> IF k \in DOMAIN c THEN c[k] ELSE r[k]]

\* dict(context): the results are left out
Merge_context_only(c, r) == c

\* {**context, **results}
Merge(c, r) == [k \in DOMAIN c \cup DOMAIN r |-> IF k \in DOMAIN r THEN r[k] ELSE c[k]]

\* the `continue` left out
AlreadyDone_never(nid, dn) == FALSE

\* if nid in done: continue
AlreadyDone(nid, dn) == nid \in dn

\* any(...) in the place of all(...)
Ready_any(node, dn) ==
    \/ node.depends_on = <<>>
    \/ \E k \in 1..Len(node.depends_on) : node.depends_on[k] \in dn

\* all(dep in done for dep in node.depends_on)
Ready(node, dn) == \A k \in 1..Len(node.depends_on) : node.depends_on[k] \in dn

\* the set readiness is tested against is the one taken when the pass began
LiveDone_snapshot(dn, cs, p) ==
    {cs[k].nid : k \in {m \in 1..Len(cs) : cs[m].pass < p /\ cs[m].ok}}

\* `dep in done` reads the set that done.add(nid) has grown in this very pass
LiveDone(dn, cs, p) == dn

\* results = {nid: out}: the earlier results are dropped
Store_fresh(r, nid, out) == nid :> out

\* results[nid] = out
Store(r, nid, out) == [k \in DOMAIN r \cup {nid} |-> IF k = nid THEN out ELSE r[k]]

\* results = dict(context)
InitialResults_from_context(c) == c

\* results = {}
InitialResults(c) == EmptyDict

\* the exception is wrapped on its way out of run
Escapes_wrapped(e) == [type |-> "RuntimeError", args |-> <<e.type>>]

\* the exception of node.fn(...) as it leaves run: no try/except, it is e itself
Escapes(e) == e

\* node.fn(results): the node writes to run's own dict
ResultsAfterCall_shared(r, argAfter) == argAfter

\* run's `results` once node.fn(arg) has written to arg: arg is a new dict
\* ({**context, **results}), so nothing of it reaches results
ResultsAfterCall(r, argAfter) == r

\* context.update(results); node.fn(context): the node writes to the caller's dict
ContextAfterCall_shared(c, argAfter) == argAfter

\* the caller's context once node.fn(arg) has written to arg
ContextAfterCall(c, argAfter) == c

\* self.nodes.pop(nid) once the node is done
GraphAfterCall_popped(d, nid) == SelectSeq(d, LAMBDA n : n.id # nid)

\* self.nodes once a node has run: run only reads self.nodes
GraphAfterCall(d, nid) == d

\* done is kept from one run to the next
FreshDone_kept(dn) == dn

\* done = set(): a local of run, made anew by every call
FreshDone(dn) == {}

\* done.add(nid) left out
MarkDone_forgotten(dn, nid) == dn

\* done.add(nid)
MarkDone(dn, nid) == dn \cup {nid}

----------------------------------------------------------------------------
(* The inputs: node sequences and contexts.                                 *)

\* the id of each of n nodes, as an index into IdPool: ids are opaque strings,
\* so a sequence names them in the order of their first use
IdPatterns(n) ==
    {q \in [1..n -> 1..n] :
        \A k \in 1..n : \A j \in 1..(q[k] - 1) : \E m \in 1..(k - 1) : q[m] = j}

\* where the depends_on list of each of n nodes ends in one list of e entries
Cuts(n, e) ==
    {c \in [0..n -> 0..e] :
        /\ c[0] = 0
        /\ n = 0 \/ c[n] = e
        /\ \A k \in 1..n : c[k - 1] <= c[k]}

\* node k of a sequence returns {"x": k}
OutOf(k) == [x |-> k]

\* a node sequence of any shape: n nodes with the ids of pattern p and the
\* depends_on lists cut from flat at c; each node returns its own constant,
\* but for node bad (if any), which raises
GraphInput(n, p, c, flat, bad) ==
    [k \in 1..n |-> Node(IdPool[p[k]],
                         IF k = bad THEN RaiseFn ELSE ConstFn(OutOf(k)),
                         SubSeq(flat, c[k - 1] + 1, c[k]))]

\* the nodes of the three-node graph A <- B, A <- C: A returns {"x": 1}, B
\* and C add 1 and 2 to the x they read at the path their style names
ViaResults(id) == <<"results", id, "x">>
Direct(id) == <<id, "x">>
PathOf(style, id) == IF style = "results" THEN ViaResults(id) ELSE Direct(id)
Styles == {"results", "direct"}

FanOutInput(order, sb, sc) ==
    LET three == <<Node("A", ConstFn([x |-> 1]), <<>>),
                   Node("B", ReadFn(PathOf(sb, "A"), "y", 1), <<"A">>),
                   Node("C", ReadFn(PathOf(sc, "A"), "z", 2), <<"A">>)>>
    IN [k \in 1..3 |-> three[order[k]]]

\* three nodes A, B, C, without dependencies or in the chain A <- B <- C;
\* node w writes to the mapping it receives, each node returns its own constant
WriterInput(order, w, write, chained) ==
    LET three == [k \in 1..3 |->
                    Node(IdPool[k],
                         IF k = w THEN WriteFn(write, OutOf(k)) ELSE ConstFn(OutOf(k)),
                         IF chained /\ k > 1 THEN <<IdPool[k - 1]>> ELSE <<>>)]
    IN [k \in 1..3 |-> three[order[k]]]

\* the ids of the three nodes of meeting_cycle_dag, in the order of its list
FlowIds == <<"brainstorm", "standup", "allhands">>

\* the flows are chained the other way round
MeetingCycleInput_reversed(failing) ==
    [k \in 1..3 |-> Node(FlowIds[4 - k],
                         IF 4 - k = failing THEN RaiseFn ELSE ConstFn(OutOf(4 - k)),
                         IF k > 1 THEN <<FlowIds[5 - k]>> ELSE <<>>)]

\* the node list of meeting_cycle_dag: each flow returns its own document,
\* but for the flow failing (if any), which raises
MeetingCycleInput(failing) ==
    [k \in 1..3 |-> Node(FlowIds[k],
                         IF k = failing THEN RaiseFn ELSE ConstFn(OutOf(k)),
                         IF k > 1 THEN <<FlowIds[k - 1]>> ELSE <<>>)]

Writes == {"clobber", "clear"}

Permutations3 == {o \in [1..3 -> 1..3] : \A a, b \in 1..3 : a # b => o[a] # o[b]}

\* the initial contexts: empty, or one key that is a node id and one that is not
Contexts == {EmptyDict, ("A" :> [x |-> 10]) @@ ("k" :> [x |-> 20])}

----------------------------------------------------------------------------
(* The state machine.                                                       *)

DagRest ==
    /\ context = EmptyDict
    /\ pc = "new"
    /\ nodes = <<>>
    /\ err = NoErr
    /\ results = EmptyDict
    /\ done = {}
    /\ progress = FALSE
    /\ i = 0
    /\ pass = 0
    /\ calls = <<>>
    /\ earlier = "none"

InitRest == DagRest /\ ApprIdle /\ HubIdle /\ AuthIdle

InitGraph ==
    \E n \in 0..MaxNodes : \E e \in 0..MaxEdges :
        /\ n = 0 => e = 0
        /\ \E p \in IdPatterns(n) : \E c \in Cuts(n, e) :
           \E flat \in [1..e -> {IdPool[p[k]] : k \in 1..n} \cup {Ghost}] :
           \E bad \in 0..n :
               input = GraphInput(n, p, c, flat, bad)

InitFanOut ==
    \E order \in Permutations3 : \E sb \in Styles : \E sc \in Styles :
        input = FanOutInput(order, sb, sc)

InitWriter ==
    \E order \in Permutations3 : \E w \in 1..3 : \E write \in Writes : \E chained \in BOOLEAN :
        input = WriterInput(order, w, write, chained)

InitMeeting ==
    \E failing \in 0..3 : input = MeetingCycleInput(failing)

Init == (InitGraph \/ InitFanOut \/ InitWriter \/ InitMeeting) /\ InitRest

\* dag = DAG(input)
Construct ==
    /\ pc = "new"
    /\ LET d == DictOf(input)
           e == check_cycles(d)
       IN /\ nodes' = d
          /\ err' = e
          /\ pc' = IF e = NoErr THEN "built" ELSE "ctor_raised"
    /\ calls' = calls \o ctor_calls(input)
    /\ UNCHANGED <<input, context, results, done, progress, i, pass, earlier>>
    /\ UNCHANGED <<apprVars, hubVars, authVars>>

\* dag.run(c) is called: results = {}; done = set()
RunCall ==
    /\ pc \in {"built", "returned", "run_raised"}
    /\ pc' = "while"
    /\ err' = NoErr
    /\ done' = FreshDone(done)
    /\ progress' = FALSE
    /\ i' = 0
    /\ pass' = 0
    /\ calls' = <<>>
    /\ \E c \in Contexts : context' = c /\ results' = InitialResults(c)
    /\ UNCHANGED <<input, nodes>>
    /\ UNCHANGED <<apprVars, hubVars, authVars>>

\* run is called, for the first time or again
RunStart == RunCall /\ UNCHANGED earlier

\* run is called, and how the run before it ended is written down
RunStartAfter == RunCall /\ earlier' = (IF pc = "built" THEN "none" ELSE pc)

\* while len(done) < len(self.nodes): progress = False ... ; return results
WhileTest ==
    /\ pc = "while"
    /\ IF Cardinality(done) < Len(nodes)
       THEN /\ pc' = "for"
            /\ progress' = FALSE
            /\ i' = 1
            /\ pass' = pass + 1
       ELSE /\ pc' = "returned"
            /\ UNCHANGED <<progress, i, pass>>
    /\ UNCHANGED <<input, context, nodes, err, results, done, calls, earlier>>
    /\ UNCHANGED <<apprVars, hubVars, authVars>>

\* one iteration of `for nid, node in self.nodes.items()`, or the end of the
\* loop and `if not progress: raise RuntimeError(...)`
ForStep ==
    /\ pc = "for"
    /\ IF i > Len(nodes)
       THEN /\ IF progress
               THEN pc' = "while" /\ err' = err
               ELSE pc' = "run_raised" /\ err' = NoProgressErr
            /\ UNCHANGED <<context, nodes, results, done, progress, i, calls>>
       ELSE LET node == nodes[i]
                nid == node.id
            IN IF AlreadyDone(nid, done)
               THEN /\ i' = i + 1
                    /\ UNCHANGED <<context, nodes, pc, err, results, done, progress, calls>>
               ELSE IF Ready(node, LiveDone(done, calls, pass))
               THEN LET arg == Merge(context, results)
                        r == Apply(node.fn, arg)
                        after == ArgAfter(node.fn, arg)
                        call == [nid |-> nid, arg |-> arg, pass |-> pass,
                                 ok |-> r.ok, out |-> r.out, raised |-> r.err]
                    IN /\ calls' = Append(calls, call)
                       /\ context' = ContextAfterCall(context, after)
                       /\ IF r.ok
                          THEN /\ results' = Store(ResultsAfterCall(results, after), nid, r.out)
                               /\ done' = MarkDone(done, nid)
                               /\ nodes' = GraphAfterCall(nodes, nid)
                               /\ progress' = TRUE
                               /\ i' = i + 1
                               /\ UNCHANGED <<pc, err>>
                          ELSE /\ pc' = "run_raised"
                               /\ err' = Escapes(r.err)
                               /\ UNCHANGED <<nodes, results, done, progress, i>>
               ELSE /\ i' = i + 1
                    /\ UNCHANGED <<context, nodes, pc, err, results, done, progress, calls>>
    /\ UNCHANGED <<input, pass, earlier>>
    /\ UNCHANGED <<apprVars, hubVars, authVars>>

Next == Construct \/ RunStart \/ WhileTest \/ ForStep

Spec == Init /\ [][Next]_vars

\* run is synchronous, single-threaded code: once called, its loops keep
\* stepping until it returns or raises
FairSpec == Spec /\ WF_vars(WhileTest) /\ WF_vars(ForStep)

\* one DAG object run again and again, on the three-node graphs
InitRerun == (InitFanOut \/ InitWriter \/ InitMeeting) /\ InitRest

NextRerun == Construct \/ RunStartAfter \/ WhileTest \/ ForStep

RerunSpec == InitRerun /\ [][NextRerun]_vars

----------------------------------------------------------------------------
(* Vocabulary of the properties.                                            *)

\* the dependency edges <<node id, depends_on id>> of a sequence of nodes
EdgesOf(s) ==
    UNION {{<<s[k].id, s[k].depends_on[m]>> : m \in 1..Len(s[k].depends_on)} : k \in 1..Len(s)}

\* the ids one edge of E away from an id of S
Successors(E, S) == {e[2] : e \in {f \in E : f[1] \in S}}

\* the ids reached from S over at least one and at most n edges of E
RECURSIVE Descendants(_, _, _)
Descendants(E, S, n) ==
    IF n = 0 \/ S = {} THEN {}
    ELSE LET T == Successors(E, S) IN T \cup Descendants(E, T, n - 1)

\* some node of s depends on itself over one or more edges
HasCycle(s) == \E k \in 1..Len(s) : s[k].id \in Descendants(EdgesOf(s), {s[k].id}, Len(s))

\* every depends_on id of s is the id of a node of s
AllResolve(s) == \A e \in EdgesOf(s) : e[2] \in IdsOf(s)

\* <<node id, depends_on id>> for each depends_on id of s that names no node of s
UnknownDeps(s) == {e \in EdgesOf(s) : e[2] \notin IdsOf(s)}

\* the exception e mentions the string x
Names(e, x) == \E k \in 1..Len(e.args) : e.args[k] = x

Constructed == pc # "new"
Finished == pc \in {"returned", "run_raised"}
\* run was left by the exception of a node's fn
WorkRaised == pc = "run_raised" /\ calls # <<>> /\ ~calls[Len(calls)].ok /\ err # NoProgressErr

\* the depends_on ids of the node whose invocation calls[k] records
DepsOfCall(k) == Range(Lookup(nodes, calls[k].nid).depends_on)

\* calls[k] was handed the output that calls[j] returned, under the id of calls[j]
Visible(j, k) ==
    /\ calls[j].nid \in DOMAIN calls[k].arg
    /\ calls[k].arg[calls[j].nid] = calls[j].out

----------------------------------------------------------------------------
C2_DepsDoneBeforeInvoke ==
    \A k \in 1..Len(calls) : \A d \in DepsOfCall(k) :
        \E j \in 1..(k - 1) : calls[j].nid = d /\ calls[j].ok /\ Visible(j, k)

\* a node with two different dependencies has been invoked
C2_Witness ==
    \E k \in 1..Len(calls) : Cardinality(DepsOfCall(k)) = 2

(* C3, as stated: every node sequence that contains a dependency cycle      *)
(* makes construction fail with the cycle error, whatever else it holds.    *)
C3_CycleAlwaysCycleError ==
    (Constructed /\ HasCycle(input)) => (pc = "ctor_raised" /\ err = CycleErr)

(* C3, amended: when the id-to-node mapping (the last node of each id)      *)
(* contains a dependency cycle, construction fails: with the cycle error    *)
(* if every depends_on id of the mapping names a node, and otherwise with   *)
(* the cycle error or the KeyError of a missing id.                         *)
C3_MappingCycleRejected ==
    (Constructed /\ HasCycle(nodes)) =>
        /\ pc = "ctor_raised"
        /\ AllResolve(nodes) => err = CycleErr
        /\ err = CycleErr \/ \E e \in UnknownDeps(nodes) : err = KeyErr(e[2])

\* two nodes that depend on each other were rejected with the cycle error
C3_Witness ==
    /\ pc = "ctor_raised" /\ err = CycleErr
    /\ Len(nodes) >= 2
    /\ \E a, b \in 1..Len(nodes) :
          /\ a # b
          /\ nodes[b].id \in Range(nodes[a].depends_on)
          /\ nodes[a].id \in Range(nodes[b].depends_on)

(* C4. When a node declares a depends_on id that names no node of the       *)
(* sequence, construction fails with an error that is not the cycle error   *)
(* and that names both the offending node and the missing id.               *)
C4_UnknownDependencyNamed ==
    (Constructed /\ UnknownDeps(input) # {}) =>
        /\ pc = "ctor_raised"
        /\ err.type # CycleErr.type
        /\ \E e \in UnknownDeps(input) : Names(err, e[1]) /\ Names(err, e[2])

(* C5. In one run every node's fn is invoked at most once, and exactly      *)
(* once each when the run returns.                                          *)
C5_InvokedExactlyOnce ==
    /\ \A j, k \in 1..Len(calls) : j # k => calls[j].nid # calls[k].nid
    /\ pc = "returned" => {calls[k].nid : k \in 1..Len(calls)} = IdsOf(nodes)

\* a run of three nodes that took more than one pass has returned
C5_Witness ==
    /\ pc = "returned"
    /\ Len(nodes) = 3 /\ Len(calls) = 3
    /\ pass >= 2

(* C6. run terminates on a constructed DAG: no pass ends without having     *)
(* executed a node, the passes never outnumber the nodes, and a run that    *)
(* was started returns unless the fn of a node raised.                      *)
C6_RunTerminates ==
    /\ [](pc = "for" /\ i > Len(nodes) => progress)
    /\ [](pass <= Len(nodes))
    /\ (pc = "while" ~> (pc = "returned" \/ WorkRaised))

\* a run has returned after as many passes as the DAG has nodes
C6_Witness ==
    /\ pc = "returned"
    /\ Len(nodes) = 3
    /\ pass = Len(nodes)

(* C7, as stated: a returned output is visible to every node invoked in a   *)
(* later pass, and not visible to a node invoked in the same or an earlier  *)
(* pass unless that node declared a dependency on the producer.             *)
C7_HiddenWithinPass ==
    \A j, k \in 1..Len(calls) :
        (j # k /\ calls[j].ok) =>
            /\ calls[j].pass < calls[k].pass => Visible(j, k)
            /\ (calls[k].pass <= calls[j].pass /\ calls[j].nid \notin DepsOfCall(k))
                  => ~Visible(j, k)

(* C7, amended: a returned output is visible under the producer's id to     *)
(* every node invoked in a later pass and to every node invoked after the   *)
(* producer in the same pass, declared dependency or not; it is not         *)
(* visible to a node invoked before the producer.                           *)
C7_VisibleOnceReturned ==
    \A j, k \in 1..Len(calls) :
        (j # k /\ calls[j].ok) =>
            /\ calls[j].pass < calls[k].pass => Visible(j, k)
            /\ calls[j].pass = calls[k].pass => (Visible(j, k) <=> j < k)
            /\ calls[j].pass > calls[k].pass => ~Visible(j, k)

\* a node saw the output of a node of the same pass that it does not depend on
C7_Witness ==
    \E j, k \in 1..Len(calls) :
        /\ j < k /\ calls[j].ok
        /\ calls[j].pass = calls[k].pass
        /\ calls[j].nid \notin DepsOfCall(k)
        /\ Visible(j, k)

(* C8. Whenever the fn of W has returned before the fn of N is invoked in   *)
(* the same run, the mapping passed to N holds W's output under key W,      *)
(* whether or not N depends on W, directly or transitively.                 *)
C8_AmbientVisibility ==
    \A k \in 1..Len(calls) : \A j \in 1..(k - 1) :
        calls[j].ok =>
            /\ calls[j].nid \in DOMAIN calls[k].arg
            /\ calls[k].arg[calls[j].nid] = calls[j].out

\* a node was handed the output of a node outside the transitive closure of
\* its dependencies, returned in an earlier pass
C8_Witness ==
    \E k \in 1..Len(calls) : \E j \in 1..(k - 1) :
        /\ calls[j].ok
        /\ calls[j].pass < calls[k].pass
        /\ calls[j].nid \notin Descendants(EdgesOf(nodes), {calls[k].nid}, Len(nodes))
        /\ calls[k].arg[calls[j].nid] = calls[j].out

\* the outputs returned before calls[k], by node id
ReturnedBefore(k) == {j \in 1..(k - 1) : calls[j].ok}

(* C9. The mapping passed to a node's fn is exactly the union of the        *)
(* initial context and the outputs returned so far, each under the id of    *)
(* its node; an output overrides an initial-context value of the same key,  *)
(* and until that node has returned the initial value is what is seen.      *)
C9_ArgIsContextPlusResults ==
    \A k \in 1..Len(calls) :
        LET doneIds == {calls[j].nid : j \in ReturnedBefore(k)}
        IN /\ DOMAIN calls[k].arg = DOMAIN context \cup doneIds
           /\ \A j \in ReturnedBefore(k) : calls[k].arg[calls[j].nid] = calls[j].out
           /\ \A key \in DOMAIN context \ doneIds : calls[k].arg[key] = context[key]

\* the context key "A" is a node id: one node was invoked before node A
\* returned and saw the initial value, a later one saw A's output
C9_Witness ==
    /\ "A" \in DOMAIN context
    /\ \E j, k, m \in 1..Len(calls) :
          /\ j < k /\ k < m
          /\ calls[k].nid = "A" /\ calls[k].ok
          /\ calls[j].arg["A"] = context["A"]
          /\ calls[m].arg["A"] = calls[k].out
          /\ calls[k].out # context["A"]

\* the graph of the scenario: A, then B and C that depend on A, each reading
\* A's x at the path of the style
FanOutABC(style) == FanOutInput(<<1, 2, 3>>, style, style)
FanOutResults == ("A" :> [x |-> 1]) @@ ("B" :> [y |-> 2]) @@ ("C" :> [z |-> 3])

(* C10, as stated: with B and C reading context["results"]["A"]["x"], the   *)
(* run with context {} returns {"A":{"x":1}, "B":{"y":2}, "C":{"z":3}}.     *)
C10_ReadViaResultsKey ==
    (input = FanOutABC("results") /\ context = EmptyDict /\ Finished) =>
        (pc = "returned" /\ results = FanOutResults)

(* C10, amended: with B and C reading context["A"]["x"], the run with       *)
(* context {} returns {"A":{"x":1}, "B":{"y":2}, "C":{"z":3}}: a dependent  *)
(* reads its upstream's output at context[<upstream id>].                   *)
C10_ReadViaUpstreamId ==
    (input = FanOutABC("direct") /\ context = EmptyDict /\ Finished) =>
        (pc = "returned" /\ results = FanOutResults)

\* the scenario has been run with context {} and has returned the three results
C10_Witness ==
    /\ input = FanOutABC("direct")
    /\ context = EmptyDict
    /\ pc = "returned"
    /\ Len(calls) = 3
    /\ results = FanOutResults

\* the ids of the calls of the current run that returned
ReturnedIds == {calls[k].nid : k \in {j \in 1..Len(calls) : calls[j].ok}}

(* C11. The mapping run returns holds, for every node id, exactly the       *)
(* value the node's fn returned, which is the value later nodes saw under   *)
(* that id; it has no other key, so a key of the initial context is in it   *)
(* only when it is a node id.                                               *)
C11_ReturnsOutputsVerbatim ==
    pc = "returned" =>
        /\ DOMAIN results = ReturnedIds
        /\ \A k \in 1..Len(calls) :
              /\ results[calls[k].nid] = calls[k].out
              /\ \A m \in (k + 1)..Len(calls) : calls[m].arg[calls[k].nid] = results[calls[k].nid]
        /\ DOMAIN context \cap DOMAIN results \subseteq IdsOf(nodes)

\* a run with a context of two keys, one of them a node id, has returned the
\* outputs of two nodes
C11_Witness ==
    /\ pc = "returned"
    /\ DOMAIN context = {"A", "k"}
    /\ Len(calls) = 2
    /\ DOMAIN results = {"A", "B"}
    /\ results["A"] = calls[CHOOSE k \in 1..2 : calls[k].nid = "A"].out

(* C12. When a node's fn raises, the run ends there: the caller gets that   *)
(* very exception and no mapping, the failing call is the last call of the  *)
(* run, and no node that had completed was invoked again.                   *)
C12_NodeFailureAborts ==
    \A k \in 1..Len(calls) :
        ~calls[k].ok =>
            /\ k = Len(calls)
            /\ pc = "run_raised"
            /\ err = calls[k].raised
            /\ \A j \in 1..(k - 1) : calls[j].ok /\ calls[j].nid # calls[k].nid
            /\ \A j, m \in 1..(k - 1) : j # m => calls[j].nid # calls[m].nid

\* a node raised after another node had completed and while a third had
\* still to run
C12_Witness ==
    /\ pc = "run_raised"
    /\ Len(nodes) = 3
    /\ Len(calls) = 2
    /\ calls[1].ok /\ ~calls[2].ok
    /\ err = WorkErr

(* C13. In a run of a DAG whose construction succeeded, no pass ends with   *)
(* no node executed while a node is not done: the no-progress RuntimeError  *)
(* is never raised.                                                         *)
C13_NoProgressUnreachable ==
    /\ err # NoProgressErr
    /\ (pc = "for" /\ i > Len(nodes) /\ Cardinality(done) < Len(nodes)) => progress

\* a pass has ended with a node executed and another node still not done
C13_Witness ==
    /\ pc = "for"
    /\ i > Len(nodes)
    /\ Cardinality(done) < Len(nodes)
    /\ progress

(* C14. Construction invokes no node's fn, whether it succeeds or fails.    *)
C14_ConstructionCallsNothing ==
    pc \in {"built", "ctor_raised"} => calls = <<>>

\* a malformed sequence of three nodes has been rejected
C14_Witness ==
    /\ pc = "ctor_raised"
    /\ Len(input) = 3
    /\ calls = <<>>

(* C15. When construction succeeds the id-to-node mapping is acyclic and    *)
(* every depends_on id of the mapping is one of its keys, also for a        *)
(* sequence with colliding ids.                                             *)
C15_BuiltGraphIsValid ==
    pc \notin {"new", "ctor_raised"} =>
        /\ ~HasCycle(nodes)
        /\ AllResolve(nodes)
        /\ \A a, b \in 1..Len(nodes) : a # b => nodes[a].id # nodes[b].id

\* a mapping was built from a sequence with colliding ids whose dropped node
\* had an edge that does not resolve or closes a cycle
C15_Witness ==
    /\ pc = "built"
    /\ Len(nodes) < Len(input)
    /\ Len(nodes) >= 2
    /\ HasCycle(input) \/ ~AllResolve(input)

\* the node of the sequence handed to the constructor that comes last among
\* those with this id
Survivor(id) ==
    LET K == {k \in 1..Len(input) : input[k].id = id}
    IN input[CHOOSE k \in K : \A m \in K : m <= k]

(* C17. When nodes of the sequence share an id, construction raises nothing *)
(* for it and keeps one node under the id, the last one; the cycle and      *)
(* dependency checks and run go by the kept nodes only: an error comes      *)
(* from an edge of a kept node, and every call is a call of a kept node.    *)
C17_LastNodeOfAnIdWins ==
    Constructed =>
        /\ IdsOf(nodes) = IdsOf(input)
        /\ Len(nodes) = Cardinality(IdsOf(input))
        /\ \A k \in 1..Len(nodes) : nodes[k] = Survivor(nodes[k].id)
        /\ err = CycleErr => HasCycle(nodes)
        /\ err.type = "KeyError" /\ pc = "ctor_raised" =>
              \E e \in UnknownDeps(nodes) : err = KeyErr(e[2])
        /\ pc = "ctor_raised" => (HasCycle(nodes) \/ ~AllResolve(nodes))
        /\ \A k \in 1..Len(calls) :
              LET r == Apply(Survivor(calls[k].nid).fn, calls[k].arg)
              IN calls[k].ok = r.ok /\ calls[k].out = r.out

\* a sequence of three nodes, two of one id, the dropped one with an edge
\* that does not resolve or closes a cycle, was built and run
C17_Witness ==
    /\ pc = "returned"
    /\ Len(input) = 3
    /\ Len(nodes) = 2
    /\ Len(calls) = 2
    /\ HasCycle(input) \/ ~AllResolve(input)

\* the mapping d shows nothing of a write by a node's fn
Untouched(d) == "m" \notin DOMAIN d /\ \A k \in DOMAIN d : d[k] # Clobbered

\* a step of a run leaves the caller's context as it was
ContextKept == pc \in {"while", "for"} => (context' = context)

(* C18. A node's fn works on a snapshot: run leaves the caller's context    *)
(* as it was, and when a fn adds, removes or rebinds top-level keys of the  *)
(* mapping it received, neither results, nor the mapping run returns, nor   *)
(* the mapping any later node receives shows it.                            *)
C18_FnGetsASnapshot ==
    /\ [][ContextKept]_vars
    /\ [](/\ Untouched(context)
          /\ Untouched(results)
          /\ DOMAIN results = ReturnedIds
          /\ \A k \in 1..Len(calls) :
                /\ Untouched(calls[k].arg)
                /\ DOMAIN calls[k].arg = DOMAIN context \cup {calls[j].nid : j \in ReturnedBefore(k)})

\* a node's fn has written to the mapping it received, a node has been
\* invoked after it, and the run has returned
C18_Witness ==
    /\ pc = "returned"
    /\ context # EmptyDict
    /\ \E k \in 1..(Len(calls) - 1) :
          /\ Lookup(nodes, calls[k].nid).fn.kind \in Writes
          /\ ArgAfter(Lookup(nodes, calls[k].nid).fn, calls[k].arg) # calls[k].arg

\* a step keeps every binding of results and every member of done, and a
\* key it adds is the id of the node at hand, bound to what its call returned
GrowsByOwnKey ==
    pc \in {"while", "for"} =>
    LET new == DOMAIN results' \ DOMAIN results
        last == calls'[Len(calls')]
    IN /\ \A k \in DOMAIN results : k \in DOMAIN results' /\ results'[k] = results[k]
       /\ done \subseteq done'
       /\ (new # {}) =>
             (/\ pc = "for"
              /\ i <= Len(nodes)
              /\ new = {nodes[i].id}
              /\ calls' = Append(calls, last)
              /\ last.nid = nodes[i].id
              /\ results'[nodes[i].id] = last.out)

(* C19. In a run a key of results is written once, by the call of the node  *)
(* whose id it is, and its binding is never changed or removed; results     *)
(* and done only grow, and done is the key set of results.                  *)
C19_ResultsWrittenOnce ==
    /\ [](done = DOMAIN results)
    /\ [][GrowsByOwnKey]_vars

\* the third key of results has been written, in a later pass than the first
C19_Witness ==
    /\ Cardinality(DOMAIN results) = 3
    /\ pass >= 2
    /\ pc = "for"

(* C20. run leaves the graph as construction built it: the keys of the      *)
(* node mapping, and the fn and depends_on of each node, are the same       *)
(* after every step of a run, whether the run returns or raises.            *)
C20_RunLeavesGraphUnchanged ==
    [][pc # "new" => (nodes' = nodes)]_vars

\* the third call of a run of three nodes has raised, the graph being as built
C20_Witness ==
    /\ pc = "run_raised"
    /\ Len(nodes) = 3
    /\ Len(calls) = 3
    /\ \A k \in 1..Len(nodes) : nodes[k] = Survivor(nodes[k].id)

\* the place in the sequence handed to the constructor where an id first occurs
FirstAt(id) ==
    LET K == {k \in 1..Len(input) : input[k].id = id}
    IN CHOOSE k \in K : \A m \in K : k <= m

(* C22. Within one pass nodes are invoked in the order in which their ids   *)
(* first occur in the sequence handed to the constructor: of two nodes      *)
(* invoked in the same pass, the one whose id occurs first is invoked       *)
(* first.                                                                   *)
C22_PassFollowsFirstOccurrence ==
    \A j \in 1..Len(calls) : \A k \in (j+1)..Len(calls) :
        calls[j].pass = calls[k].pass => FirstAt(calls[j].nid) < FirstAt(calls[k].nid)

\* two nodes were invoked in one pass, the id of the first occurring again
\* after the id of the second in the sequence
C22_Witness ==
    /\ Len(input) = 3
    /\ input[1].id = input[3].id
    /\ input[2].id # input[1].id
    /\ Len(calls) = 2
    /\ calls[1].pass = calls[2].pass
    /\ calls[1].nid = input[1].id
    /\ calls[2].nid = input[2].id

\* the call of the dependency of calls[k] that was invoked last
LastDepCall(k) ==
    LET J == {j \in 1..Len(calls) : calls[j].nid \in DepsOfCall(k)}
    IN CHOOSE j \in J : \A m \in J : m <= j

\* every node of the mapping comes after the nodes it depends on
Topological ==
    \A k \in 1..Len(nodes) : \A d \in Range(nodes[k].depends_on) :
        \E m \in 1..(k - 1) : nodes[m].id = d

(* C23. Readiness is tested against done as it stands: a node that comes    *)
(* after the last invoked of its dependencies in iteration order is         *)
(* invoked in the pass of that dependency and handed its output; a graph    *)
(* listed in topological order is run in one pass, in list order.           *)
C23_ReadinessIsLive ==
    /\ \A k \in 1..Len(calls) :
          DepsOfCall(k) # {} =>
              LET j == LastDepCall(k)
              IN FirstAt(calls[j].nid) < FirstAt(calls[k].nid) =>
                    calls[k].pass = calls[j].pass /\ Visible(j, k)
    /\ (pc \notin {"new", "ctor_raised"} /\ Topological) =>
          /\ \A k \in 1..Len(calls) : calls[k].pass = 1 /\ calls[k].nid = nodes[k].id
          /\ pc = "returned" => Len(calls) = Len(nodes)

\* a chain of three nodes listed dependencies first has been run to its end
C23_Witness ==
    /\ pc = "returned"
    /\ Len(nodes) = 3
    /\ Topological
    /\ nodes[2].depends_on = <<nodes[1].id>>
    /\ nodes[3].depends_on = <<nodes[2].id>>
    /\ Len(calls) = 3
    /\ pass = 1

(* C24. Runs of one DAG object are independent: every run starts with      *)
(* results and done empty, and a run that follows another, returned or     *)
(* aborted by a node's fn, invokes no node twice, hands a node nothing     *)
(* but the context and the outputs of this run's earlier calls, and, when  *)
(* it returns, has invoked every node once and returns their outputs.      *)
C24_RunsAreIndependent ==
    /\ (pc = "while" /\ pass = 0) => (results = EmptyDict /\ done = {} /\ calls = <<>>)
    /\ earlier # "none" =>
          /\ done = ReturnedIds
          /\ DOMAIN results = ReturnedIds
          /\ \A j, k \in 1..Len(calls) : j # k => calls[j].nid # calls[k].nid
          /\ \A k \in 1..Len(calls) :
                DOMAIN calls[k].arg =
                    DOMAIN context \cup {calls[j].nid : j \in ReturnedBefore(k)}
          /\ pc = "run_raised" => WorkRaised
          /\ pc = "returned" =>
                /\ {calls[k].nid : k \in 1..Len(calls)} = IdsOf(nodes)
                /\ \A k \in 1..Len(calls) : results[calls[k].nid] = calls[k].out

\* a run was aborted by the fn of the third node; the next run has invoked
\* the first two nodes again
C24_Witness ==
    /\ earlier = "run_raised"
    /\ Len(nodes) = 3
    /\ Len(calls) = 2
    /\ calls[1].ok /\ calls[2].ok
    /\ context = EmptyDict

\* the DAG is the one meeting_cycle_dag builds
IsMeetingCycle == IdsOf(input) = Range(FlowIds)

(* C25. meeting_cycle_dag invokes brainstorm, standup and allhands in that  *)
(* order, each once; standup is handed the output of brainstorm under       *)
(* 'brainstorm' and allhands both earlier outputs; the mapping returned     *)
(* has exactly the three keys; after a flow that raises no flow is invoked. *)
C25_MeetingCycleOrder ==
    IsMeetingCycle =>
        /\ pc # "ctor_raised"
        /\ Len(calls) <= 3
        /\ \A k \in 1..Len(calls) :
              /\ calls[k].nid = FlowIds[k]
              /\ \A j \in 1..(k - 1) : calls[j].ok /\ Visible(j, k)
              /\ ~calls[k].ok => (k = Len(calls) /\ pc = "run_raised")
        /\ pc = "returned" =>
              /\ Len(calls) = 3
              /\ DOMAIN results = Range(FlowIds)
              /\ \A k \in 1..3 : results[FlowIds[k]] = calls[k].out

\* meeting_cycle_dag has returned, with a context that is not empty
C25_Witness ==
    /\ IsMeetingCycle
    /\ pc = "returned"
    /\ context # EmptyDict
    /\ Len(calls) = 3
    /\ "brainstorm" \in DOMAIN calls[2].arg
    /\ {"brainstorm", "standup"} \subseteq DOMAIN calls[3].arg

----------------------------------------------------------------------------
(* The approvals endpoints: POST /approvals/submit and                      *)
(* PATCH /approvals/{id}/decision of src/src/app.py, with spend_threshold   *)
(* of src/src/services/policy.py.  Amounts are whole dollars.               *)

\* most rows of the approvals table
MaxApprovals == 2
\* most decisions taken
MaxDecisions == 2

\* auto_approve_usd when the policy gives none
DefaultUsd == 50
\* auto_approve_usd of the policy that gives one
PolicyUsd == 100

\* what load_policies can return, by shape:
\*   missing         {}: no file, or an empty one
\*   no_section      {"version": "1.0"}
\*   section_null    {"spend_thresholds": None}
\*   no_key          {"spend_thresholds": {}}
\*   number          {"spend_thresholds": {"auto_approve_usd": 100}}
\*   numeric_string  {"spend_thresholds": {"auto_approve_usd": "100"}}
\*   non_numeric     {"spend_thresholds": {"auto_approve_usd": "lots"}}
Policies == {"missing", "no_section", "section_null", "no_key",
             "number", "numeric_string", "non_numeric"}

\* amount_usd of a request: at and just above each threshold
Amounts == {DefaultUsd, DefaultUsd + 1, PolicyUsd, PolicyUsd + 1}

\* what require_role does with the request: returns, or raises 401 or 403
Authz == {"pass", "401", "403"}

\* spend_threshold(policy): thresholds.get raises AttributeError, outside the
\* try, when spend_thresholds is bound to something that is not a mapping
spend_threshold(policy) ==
    CASE policy \in {"missing", "no_section", "no_key"} -> [ok |-> TRUE, val |-> DefaultUsd]
      [] policy = "section_null" -> [ok |-> FALSE, val |-> 0]
      [] policy \in {"number", "numeric_string"} -> [ok |-> TRUE, val |-> PolicyUsd]
      [] policy = "non_numeric" -> [ok |-> TRUE, val |-> DefaultUsd]

\* the boundary amount is left pending
StatusFor_strict(amount, threshold) ==
    IF amount < threshold THEN "auto_approved" ELSE "pending"

\* "auto_approved" if req.amount_usd <= threshold else "pending"
StatusFor(amount, threshold) ==
    IF amount <= threshold THEN "auto_approved" ELSE "pending"

\* only a pending approval takes a decision
Decided_pending_only(ap, approved, now) ==
    IF ap.status = "pending"
    THEN [ap EXCEPT !.status = IF approved THEN "approved" ELSE "rejected",
                    !.decided_at = now]
    ELSE ap

\* ap.status = "approved" if approved else "rejected"; ap.decided_at = utcnow()
Decided(ap, approved, now) ==
    [ap EXCEPT !.status = IF approved THEN "approved" ELSE "rejected",
               !.decided_at = now]

\* the answer to a request that require_role turned away
Denied(op, authz) ==
    [NoResp EXCEPT !.op = op, !.authz = authz, !.code = IF authz = "401" THEN 401 ELSE 403]

\* POST /approvals/submit
Submit ==
    /\ Len(approvals) < MaxApprovals
    /\ \E authz \in Authz :
          IF authz # "pass"
          THEN /\ resp' = Denied("submit", authz)
               /\ UNCHANGED approvals
          ELSE \E policy \in Policies : \E amount \in Amounts :
                  LET req == [NoResp EXCEPT !.op = "submit", !.authz = authz,
                                            !.policy = policy, !.amount = amount]
                      t == spend_threshold(policy)
                  IN IF ~t.ok
                     THEN /\ resp' = [req EXCEPT !.code = 500]
                          /\ UNCHANGED approvals
                     ELSE LET status == StatusFor(amount, t.val)
                          IN /\ approvals' = Append(approvals,
                                                    [status |-> status, amount |-> amount,
                                                     threshold |-> t.val, decided_at |-> 0])
                             /\ resp' = [req EXCEPT !.code = 200, !.id = Len(approvals) + 1,
                                                    !.status = status, !.threshold = t.val]
    /\ UNCHANGED <<clock, dagVars, hubVars, authVars>>

\* PATCH /approvals/{approval_id}/decision
Decide ==
    /\ clock < MaxDecisions
    /\ \E authz \in Authz :
          IF authz # "pass"
          THEN /\ resp' = Denied("decide", authz)
               /\ UNCHANGED <<approvals, clock>>
          ELSE \E id \in 1..(Len(approvals) + 1) : \E approved \in BOOLEAN :
                  LET req == [NoResp EXCEPT !.op = "decide", !.authz = authz,
                                            !.id = id, !.approved = approved]
                  IN IF id \notin 1..Len(approvals)
                     THEN /\ resp' = [req EXCEPT !.code = 404]
                          /\ UNCHANGED <<approvals, clock>>
                     ELSE LET ap == Decided(approvals[id], approved, clock + 1)
                          IN /\ approvals' = [approvals EXCEPT ![id] = ap]
                             /\ clock' = clock + 1
                             /\ resp' = [req EXCEPT !.code = 200, !.status = ap.status]
    /\ UNCHANGED <<dagVars, hubVars, authVars>>

InitApprovals == input = <<>> /\ InitRest

NextApprovals == Submit \/ Decide

ApprovalsSpec == InitApprovals /\ [][NextApprovals]_vars

\* a request to submit has passed the role check
Submitted == resp.op = "submit" /\ resp.authz = "pass"

\* the threshold the policy gives: its auto_approve_usd, or the default
ThresholdOf(policy) ==
    IF policy \in {"number", "numeric_string"} THEN PolicyUsd ELSE DefaultUsd

(* C21. POST /approvals/submit stores a new approval, auto_approved exactly *)
(* when amount_usd is at most the threshold and pending otherwise, the      *)
(* threshold being the policy's auto_approve_usd, or 50 when the policy is  *)
(* missing, lacks the section or holds a value that is no number; the       *)
(* response reports the status and the threshold.                           *)
C21_SubmitStoresByThreshold ==
    Submitted =>
        /\ resp.code = 200
        /\ resp.id = Len(approvals)
        /\ resp.threshold = ThresholdOf(resp.policy)
        /\ resp.status = approvals[resp.id].status
        /\ approvals[resp.id].threshold = resp.threshold
        /\ approvals[resp.id].amount = resp.amount
        /\ resp.status = "auto_approved" <=> resp.amount <= resp.threshold
        /\ resp.status = "pending" <=> resp.amount > resp.threshold

----------------------------------------------------------------------------
(* The local mode of RunStreamHub (src/src/services/event_stream.py):      *)
(* subscribe_local, publish_local and unsubscribe_local, called in any     *)
(* order.  All three run on the event loop; publish_local never yields,    *)
(* because put on an unbounded asyncio.Queue does not wait.  A queue is    *)
(* named by the number of its creation; a message is the number of the     *)
(* call that published it.                                                 *)

\* most calls made to the hub
MaxHubCalls == 5

\* the run ids in use
Runs == {1, 2}

\* a queue the hub never handed out
Stranger == 0

\* self.queues.get(run_id, []) taken for every list of the hub
Targets_every_run(qs, run) == UNION {Range(qs[r]) : r \in DOMAIN qs}

\* self.queues.get(run_id, []), as the set of its queues
Targets(qs, run) == IF run \in DOMAIN qs THEN Range(qs[run]) ELSE {}

\* list.remove(q): the list without its first q
Remove(list, q) ==
    LET at == CHOOSE k \in 1..Len(list) : list[k] = q /\ \A m \in 1..(k - 1) : list[m] # q
    IN SubSeq(list, 1, at - 1) \o SubSeq(list, at + 1, Len(list))

HubCall(op, run, q) == [op |-> op, run |-> run, q |-> q]

\* q = hub.subscribe_local(run_id)
SubscribeLocal ==
    /\ Len(hubLog) < MaxHubCalls
    /\ \E run \in Runs :
          LET q == Len(inbox) + 1
              old == IF run \in DOMAIN queues THEN queues[run] ELSE <<>>
          IN /\ queues' = (run :> Append(old, q)) @@ queues
             /\ inbox' = Append(inbox, <<>>)
             /\ hubLog' = Append(hubLog, HubCall("subscribe", run, q))
    /\ UNCHANGED <<dagVars, apprVars, authVars>>

\* await hub.publish_local(run_id, message)
PublishLocal ==
    /\ Len(hubLog) < MaxHubCalls
    /\ \E run \in Runs :
          LET message == Len(hubLog) + 1
              to == Targets(queues, run)
          IN /\ inbox' = [q \in DOMAIN inbox |->
                            IF q \in to THEN Append(inbox[q], message) ELSE inbox[q]]
             /\ hubLog' = Append(hubLog, HubCall("publish", run, Stranger))
    /\ UNCHANGED <<queues, dagVars, apprVars, authVars>>

\* hub.unsubscribe_local(run_id, q)
UnsubscribeLocal ==
    /\ Len(hubLog) < MaxHubCalls
    /\ \E run \in Runs : \E q \in (DOMAIN inbox) \cup {Stranger} :
          /\ IF run \in DOMAIN queues /\ q \in Range(queues[run])
             THEN queues' = [queues EXCEPT ![run] = Remove(queues[run], q)]
             ELSE queues' = queues
          /\ hubLog' = Append(hubLog, HubCall("unsubscribe", run, q))
    /\ UNCHANGED <<inbox, dagVars, apprVars, authVars>>

InitHub == input = <<>> /\ InitRest

NextHub == SubscribeLocal \/ PublishLocal \/ UnsubscribeLocal

HubSpec == InitHub /\ [][NextHub]_vars

\* the call that created queue q, and the run it subscribed to
SubAt(q) == CHOOSE k \in 1..Len(hubLog) : hubLog[k].op = "subscribe" /\ hubLog[k].q = q
RunOfQueue(q) == hubLog[SubAt(q)].run

\* the first call after its creation that unsubscribed q from its run, or
\* one more than the number of calls made when there is none
UnsubAt(q) ==
    LET U == {k \in (SubAt(q) + 1)..Len(hubLog) :
                 /\ hubLog[k].op = "unsubscribe"
                 /\ hubLog[k].q = q
                 /\ hubLog[k].run = RunOfQueue(q)}
    IN IF U = {} THEN Len(hubLog) + 1 ELSE CHOOSE k \in U : \A m \in U : k <= m

\* the messages published for the run of q while q was subscribed, in order
RECURSIVE PublishedBetween(_, _, _)
PublishedBetween(run, from, to) ==
    IF from > to THEN <<>>
    ELSE (IF hubLog[from].op = "publish" /\ hubLog[from].run = run THEN <<from>> ELSE <<>>)
         \o PublishedBetween(run, from + 1, to)

\* the queues subscribed to run and not unsubscribed from it, in the order
\* of their subscription
RECURSIVE SubscribedFrom(_, _)
SubscribedFrom(run, q) ==
    IF q > Len(inbox) THEN <<>>
    ELSE (IF RunOfQueue(q) = run /\ UnsubAt(q) > Len(hubLog) THEN <<q>> ELSE <<>>)
         \o SubscribedFrom(run, q + 1)

(* C26. In the local mode of RunStreamHub, whatever the order of the calls: *)
(* a queue holds, in the order of their publication, exactly the messages   *)
(* published for its run between its subscription and its removal, so       *)
(* nothing published for another run, before its subscription or after its  *)
(* removal; unsubscribing a queue the run does not hold changes nothing.    *)
C26_LocalDelivery ==
    /\ \A q \in DOMAIN inbox :
          inbox[q] = PublishedBetween(RunOfQueue(q), SubAt(q) + 1, UnsubAt(q) - 1)
    /\ \A run \in Runs :
          (IF run \in DOMAIN queues THEN queues[run] ELSE <<>>) = SubscribedFrom(run, 1)

\* a queue was unsubscribed under the other run's id to no effect, got the
\* next message of its run, was removed and missed the one after
C26_Witness ==
    /\ Len(hubLog) = 5 /\ Len(inbox) = 1
    /\ hubLog[1].op = "subscribe"
    /\ hubLog[2].op = "unsubscribe" /\ hubLog[2].q = 1 /\ hubLog[2].run # hubLog[1].run
    /\ hubLog[3].op = "publish" /\ hubLog[3].run = hubLog[1].run
    /\ hubLog[4].op = "unsubscribe" /\ hubLog[4].q = 1 /\ hubLog[4].run = hubLog[1].run
    /\ hubLog[5].op = "publish" /\ hubLog[5].run = hubLog[1].run
    /\ inbox[1] = <<3>>

----------------------------------------------------------------------------
(* POST /auth/register of src/src/app.py.  The endpoint is a plain def,    *)
(* which FastAPI runs in a thread pool, so requests are served             *)
(* concurrently, each with a session of its own; a request takes one step  *)
(* per statement that reaches the database.                                *)

\* most requests to register
MaxRequests == 2

\* the e-mail addresses in use
Emails == {"a@x", "b@x"}

\* os.environ.get("ADMIN_SIGNUP_SECRET") when the variable is not set, and
\* inp.admin_secret when the request carries none: None
None == "None"

\* the values of ADMIN_SIGNUP_SECRET and of admin_secret in a request
Configured == {None, "s3cret"}
Supplied == {None, "s3cret", "guess"}

\* a request that has not arrived yet
IdleReq == [pc |-> "idle", email |-> "none", secret |-> None, count |-> 0, uid |-> 0, code |-> 0]

\* if not allow_signup and count > 0 and inp.admin_secret != admin_secret
GateRejects(allow_signup, count, supplied, configured) ==
    ~allow_signup /\ count > 0 /\ supplied # configured

\* the ids of the rows of the users table with this e-mail address
WithEmail(us, email) == {k \in 1..Len(us) : us[k].email = email}

Ended(req, code) == [req EXCEPT !.pc = "done", !.code = code]

\* a request arrives
RegStart ==
    \E p \in 1..MaxRequests :
    /\ reqs[p].pc = "idle"
    /\ \E email \in Emails : \E secret \in Supplied :
          reqs' = [reqs EXCEPT ![p] = [IdleReq EXCEPT !.pc = "count", !.email = email,
                                                       !.secret = secret]]
    /\ UNCHANGED <<env, users, userRoles, checked, tokens, dagVars, apprVars, hubVars>>

\* count = session.query(func.count(User.id)).scalar(), and the 403
RegCount ==
    \E p \in 1..MaxRequests :
    /\ reqs[p].pc = "count"
    /\ LET count == Len(users)
           req == [reqs[p] EXCEPT !.count = count]
       IN reqs' = [reqs EXCEPT ![p] =
                      IF GateRejects(env.allow_signup, count, req.secret, env.admin_secret)
                      THEN Ended(req, 403)
                      ELSE [req EXCEPT !.pc = "lookup"]]
    /\ UNCHANGED <<env, users, userRoles, checked, tokens, dagVars, apprVars, hubVars>>

\* session.query(User).filter(User.email == inp.email).first(), and the 409
RegLookup ==
    \E p \in 1..MaxRequests :
    /\ reqs[p].pc = "lookup"
    /\ reqs' = [reqs EXCEPT ![p] =
                   IF WithEmail(users, reqs[p].email) # {}
                   THEN Ended(reqs[p], 409)
                   ELSE [reqs[p] EXCEPT !.pc = "insert"]]
    /\ UNCHANGED <<env, users, userRoles, checked, tokens, dagVars, apprVars, hubVars>>

\* session.add(u); session.commit(): the unique index on users.email makes
\* the commit fail when the address has been taken since the lookup
RegInsert ==
    \E p \in 1..MaxRequests :
    /\ reqs[p].pc = "insert"
    /\ IF WithEmail(users, reqs[p].email) # {}
       THEN /\ reqs' = [reqs EXCEPT ![p] = Ended(reqs[p], 500)]
            /\ UNCHANGED users
       ELSE /\ users' = Append(users, [email |-> reqs[p].email])
            /\ reqs' = [reqs EXCEPT ![p] =
                           IF reqs[p].count = 0
                           THEN [reqs[p] EXCEPT !.pc = "assign", !.uid = Len(users) + 1]
                           ELSE [Ended(reqs[p], 200) EXCEPT !.uid = Len(users) + 1]]
    /\ UNCHANGED <<env, userRoles, checked, tokens, dagVars, apprVars, hubVars>>

\* if count == 0: ensure_roles(); assign_role(u.id, "admin", session)
RegAssign ==
    \E p \in 1..MaxRequests :
    /\ reqs[p].pc = "assign"
    /\ userRoles' = userRoles \cup {<<reqs[p].uid, "admin">>}
    /\ reqs' = [reqs EXCEPT ![p] = Ended(reqs[p], 200)]
    /\ UNCHANGED <<env, users, checked, tokens, dagVars, apprVars, hubVars>>

InitRegister ==
    /\ input = <<>> /\ DagRest /\ ApprIdle /\ HubIdle
    /\ env \in [allow_signup : BOOLEAN, admin_secret : Configured]
    /\ users = <<>>
    /\ userRoles = {}
    /\ reqs = [p \in 1..MaxRequests |-> IdleReq]
    /\ tokens = {}
    /\ checked = <<>>

NextRegister == RegStart \/ RegCount \/ RegLookup \/ RegInsert \/ RegAssign

RegisterSpec == InitRegister /\ [][NextRegister]_vars

\* the users holding the admin role
Admins == {r[1] : r \in {x \in userRoles : x[2] = "admin"}}

(* C27. Only the first registered user is given the admin role by           *)
(* registration: whatever the interleaving of concurrent requests, at most  *)
(* one user holds admin, and a request for an address already registered    *)
(* ends in 409 and creates no user.                                         *)
C27_OneAdminByRegistration ==
    /\ Cardinality(Admins) <= 1
    /\ \A p \in 1..MaxRequests :
          reqs[p].code \in {409, 500} => reqs[p].code = 409 /\ reqs[p].uid = 0
    /\ \A j, k \in 1..Len(users) : j # k => users[j].email # users[k].email

\* the request supplies an admin_secret and it is the configured one
SuppliesSecret(req) == req.secret # None /\ req.secret = env.admin_secret

(* C28. With ALLOW_SIGNUP not 'true' and a user in the table, a request to  *)
(* register ends in 403 and creates no user unless it supplies an           *)
(* admin_secret equal to the configured ADMIN_SIGNUP_SECRET, also when      *)
(* none is configured and the request supplies none.                        *)
C28_ClosedSignupNeedsSecret ==
    \A p \in 1..MaxRequests :
        (/\ reqs[p].pc \notin {"idle", "count"}
         /\ ~env.allow_signup
         /\ reqs[p].count > 0
         /\ ~SuppliesSecret(reqs[p])) =>
            (reqs[p].code = 403 /\ reqs[p].uid = 0)

----------------------------------------------------------------------------
(* require_role of src/src/services/auth_rbac.py, with the tokens that     *)
(* POST /auth/login issues and the roles that assign_role stores.          *)

\* the role names in use, and the users of the table
Roles == {"admin", "approver", "viewer"}
UserIds == {1, 2}

\* the Authorization header: absent, of another scheme, a bearer token
\* that verify_token rejects (forged, expired), or an issued token
NoHeader == [kind |-> "none", sub |-> 0, adm |-> FALSE]
BasicHeader == [kind |-> "basic", sub |-> 0, adm |-> FALSE]
BadToken == [kind |-> "invalid", sub |-> 0, adm |-> FALSE]
Bearer(t) == [kind |-> "bearer", sub |-> t.sub, adm |-> t.adm]

\* no call of require_role has been made
NoCheck == [authorization |-> NoHeader, allowed |-> {}, code |-> 0, looked |-> FALSE]

\* roles_for_user(user_id): the names of the roles stored for the user
roles_for_user(stored, uid) == {r[2] : r \in {x \in stored : x[1] = uid}}

\* the admin flag is taken from the token
HoldsAdmin_by_token(claims, user_roles) == claims.adm

\* if "admin" in user_roles
HoldsAdmin(claims, user_roles) == "admin" \in user_roles

\* require_role(authorization, allowed): the status it ends with (200 when
\* it returns the claims) and whether it got as far as roles_for_user
require_role(authorization, allowed, stored) ==
    IF authorization.kind # "bearer"
    THEN [code |-> 401, looked |-> FALSE]
    ELSE LET user_roles == roles_for_user(stored, authorization.sub)
         IN IF HoldsAdmin(authorization, user_roles)
            THEN [code |-> 200, looked |-> TRUE]
            ELSE IF user_roles \cap allowed = {}
            THEN [code |-> 403, looked |-> TRUE]
            ELSE [code |-> 200, looked |-> TRUE]

\* POST /auth/login: make_token(sub=str(u.id), is_admin="admin" in roles_for_user(u.id))
Login ==
    /\ \E u \in UserIds :
          tokens' = tokens \cup {[sub |-> u, adm |-> "admin" \in roles_for_user(userRoles, u)]}
    /\ UNCHANGED <<env, users, userRoles, reqs, checked, dagVars, apprVars, hubVars>>

\* assign_role(user_id, role_name, db)
AssignRole ==
    /\ \E u \in UserIds : \E role \in Roles :
          userRoles' = userRoles \cup {<<u, role>>}
    /\ UNCHANGED <<env, users, reqs, tokens, checked, dagVars, apprVars, hubVars>>

\* a request reaches an endpoint that calls require_role(authorization, allowed)
CheckRole ==
    /\ \E authorization \in {NoHeader, BasicHeader, BadToken} \cup {Bearer(t) : t \in tokens} :
       \E allowed \in SUBSET Roles :
          LET r == require_role(authorization, allowed, userRoles)
          IN checked' = [authorization |-> authorization, allowed |-> allowed,
                         code |-> r.code, looked |-> r.looked]
    /\ UNCHANGED <<env, users, userRoles, reqs, tokens, dagVars, apprVars, hubVars>>

InitRbac ==
    /\ input = <<>> /\ DagRest /\ ApprIdle /\ HubIdle
    /\ env = <<>>
    /\ users = [u \in UserIds |-> [email |-> IF u = 1 THEN "a@x" ELSE "b@x"]]
    /\ userRoles = {}
    /\ reqs = <<>>
    /\ tokens = {}
    /\ checked = NoCheck

NextRbac == Login \/ AssignRole \/ CheckRole

RbacSpec == InitRbac /\ [][NextRbac]_vars

\* the role names the table holds for the user, read off its rows
StoredNow(uid) == {role \in Roles : <<uid, role>> \in userRoles}

\* a call of require_role ends as the roles stored at that moment say
CheckedByStoredRoles ==
    checked' # checked =>
        LET a == checked'.authorization
        IN IF a.kind # "bearer"
           THEN checked'.code = 401 /\ ~checked'.looked
           ELSE /\ checked'.looked
                /\ checked'.code \in {200, 403}
                /\ checked'.code = 200 <=>
                      \/ "admin" \in StoredNow(a.sub)
                      \/ StoredNow(a.sub) \cap checked'.allowed # {}

(* C29. require_role decides by the roles stored for the token's subject   *)
(* when it is called: without a valid bearer token it ends in 401 before   *)
(* any role is looked up; otherwise a user holding admin passes every      *)
(* check and any other user passes exactly when one of their stored roles  *)
(* is in the allowed list, 403 otherwise; a role assigned after the token  *)
(* was issued counts at the next call.                                     *)
C29_RoleCheckReadsStore ==
    [][CheckedByStoredRoles]_vars

\* a token issued before its user was made admin has passed a check that
\* allows approvers only
C29_Witness ==
    /\ checked.authorization.kind = "bearer"
    /\ ~checked.authorization.adm
    /\ checked.allowed = {"approver"}
    /\ checked.code = 200
    /\ StoredNow(checked.authorization.sub) = {"admin"}

\* what a step does to the rows of the approvals table: a decision that
\* passed the role check and named a row sets its status and stamps it,
\* leaving the rest of the table alone; no other step changes a row, and no
\* step removes one or gives one the status pending or auto_approved
DecisionEffect ==
    /\ Len(approvals') >= Len(approvals)
    /\ \A k \in 1..Len(approvals) :
          /\ approvals'[k].status \in {"pending", "auto_approved"} =>
                approvals'[k] = approvals[k]
          /\ approvals'[k].amount = approvals[k].amount
          /\ approvals'[k].threshold = approvals[k].threshold
    /\ (resp'.op = "decide" /\ resp'.authz = "pass") =>
          IF resp'.id \in 1..Len(approvals)
          THEN /\ resp'.code = 200
               /\ clock' = clock + 1
               /\ approvals'[resp'.id].status =
                     (IF resp'.approved THEN "approved" ELSE "rejected")
               /\ resp'.status = approvals'[resp'.id].status
               /\ approvals'[resp'.id].decided_at = clock'
               /\ \A k \in 1..Len(approvals) : k # resp'.id => approvals'[k] = approvals[k]
               /\ Len(approvals') = Len(approvals)
          ELSE /\ resp'.code = 404
               /\ approvals' = approvals
               /\ clock' = clock

(* C30. PATCH /approvals/{id}/decision sets the status of an existing       *)
(* approval to approved or rejected and stamps decided_at, whatever its     *)
(* status was, so that the last decision wins; for an id that names no      *)
(* approval it answers 404 and changes nothing; no request gives an         *)
(* approval the status pending or auto_approved again.                      *)
C30_LastDecisionWins ==
    [][resp' # resp \/ approvals' # approvals => DecisionEffect]_vars

\* an approval stored as auto_approved was decided twice and is rejected
C30_Witness ==
    /\ Len(approvals) = 1
    /\ approvals[1].amount <= approvals[1].threshold
    /\ approvals[1].status = "rejected"
    /\ approvals[1].decided_at = 2
    /\ resp.op = "decide" /\ resp.code = 200

====
